---- MODULE Spec2Model ----
(***************************************************************************)
(* Model of the json_safe! macro of src/src/main.rs.                       *)
(*                                                                         *)
(* A macro invocation has a compile-time part (macro_rules picks the first *)
(* rule whose matcher accepts the token tree, recursively for every        *)
(* $value / $elem) and a run-time part (the expansion, a nest of           *)
(* immediately-invoked closures, is evaluated).  Both are modelled: the    *)
(* source is a token tree, Compile/Reject expand it, Run evaluates it.     *)
(***************************************************************************)
EXTENDS Integers, Sequences, FiniteSets, TLC

VARIABLES
    src,            \* the token tree handed to json_safe!( ... )
    pc,             \* "source" | "expanded" | "rejected" | "done"
    expansion,      \* the expansion of src (a tree of rule applications)
    result,         \* the serde_json::Result<Value> the invocation returned
    calls,          \* paths of the leaves handed to serde_json::to_value, in call order
    preserve_order  \* whether serde_json is built with its preserve_order feature

vars == <<src, pc, expansion, result, calls, preserve_order>>

(***************************************************************************)
(* Bounds                                                                  *)
(***************************************************************************)
MaxNodes == 4       \* nodes (containers + leaves) of a well-formed literal
MaxTokens == 7      \* tokens between the braces of a free-form input
MaxElemTokens == 3  \* tokens between the brackets of a free-form input

(***************************************************************************)
(* Tokens.  t is the token's source text; a group's t is its opening       *)
(* delimiter and ts its contents.                                          *)
(***************************************************************************)
Ident(t) == [k |-> "ident", t |-> t, ts |-> <<>>]
Literal(kind, t) == [k |-> kind, t |-> t, ts |-> <<>>]
Punct(t) == [k |-> "punct", t |-> t, ts |-> <<>>]
Group(d, ts) == [k |-> "group", t |-> d, ts |-> ts]

Colon == Punct(":")
Comma == Punct(",")

\* source text of a string literal, and of a char literal, with the given content
Quote == ("a" :> "\"a\"") @@ ("b" :> "\"b\"")
CharQuote == ("a" :> "'a'")
StrLit(content) == Literal("str", Quote[content])
CharLit(content) == Literal("char", CharQuote[content])

\* the value a literal token denotes
StrValue == ("\"a\"" :> "a") @@ ("\"b\"" :> "b") @@ ("'a'" :> "a")
NumValue == ("1" :> 1) @@ ("7" :> 7)

(***************************************************************************)
(* JSON values and results                                                 *)
(***************************************************************************)
JNull == [t |-> "Null"]
JBool(b) == [t |-> "Bool", b |-> b]
JNum(n) == [t |-> "Number", n |-> n]
JStr(s) == [t |-> "String", s |-> s]
JArr(items) == [t |-> "Array", items |-> items]
JObj(map) == [t |-> "Object", map |-> map]

Ok(v) == [tag |-> "Ok", val |-> v]
Err(msg) == [tag |-> "Err", val |-> [t |-> "Error", msg |-> msg]]
IsOk(r) == r.tag = "Ok"
IsErr(r) == r.tag = "Err"
NoResult == [tag |-> "None", val |-> JNull]

(***************************************************************************)
(* Strings are ordered by their bytes (Ord for String).                    *)
(***************************************************************************)
Utf8 == ("a" :> <<97>>) @@ ("b" :> <<98>>) @@ ("id" :> <<105, 100>>)
        @@ ("name" :> <<110, 97, 109, 101>>)
        @@ ("\"a\"" :> <<34, 97, 34>>) @@ ("\"b\"" :> <<34, 98, 34>>)

RECURSIVE BytesLess(_, _)
BytesLess(s, u) ==
    IF s = <<>> THEN u # <<>>
    ELSE IF u = <<>> THEN FALSE
    ELSE IF s[1] # u[1] THEN s[1] < u[1]
    ELSE BytesLess(Tail(s), Tail(u))

StrLess(a, b) == BytesLess(Utf8[a], Utf8[b])

(***************************************************************************)
(* macro_rules matching                                                    *)
(***************************************************************************)
\* fragment specifiers used by the matchers
FragMatches(frag, tok) ==
    CASE frag = "ident" -> tok.k = "ident"
      [] frag = "literal" -> \/ tok.k \in {"str", "char", "num"}
                             \/ tok.k = "ident" /\ tok.t \in {"true", "false"}
      [] frag = "tt" -> TRUE

NoMatch == [m |-> "no", keys |-> <<>>, vals |-> <<>>]
Ambiguous == [m |-> "ambiguous", keys |-> <<>>, vals |-> <<>>]
Matched(keys, vals) == [m |-> "yes", keys |-> keys, vals |-> vals]

\* $($key:frag : $value:tt),* $(,)?
RECURSIVE PairsFrom(_, _, _, _, _)
PairsFrom(ts, frag, i, keys, vals) ==
    IF ~(i + 2 <= Len(ts) /\ FragMatches(frag, ts[i]) /\ ts[i + 1] = Colon
         /\ FragMatches("tt", ts[i + 2]))
    THEN NoMatch
    ELSE LET ks == Append(keys, ts[i])
             vs == Append(vals, ts[i + 2])
             j == i + 3
         IN  IF j > Len(ts) THEN Matched(ks, vs)
             ELSE IF ts[j] # Comma THEN NoMatch
             ELSE IF j = Len(ts) THEN Matched(ks, vs)
             ELSE PairsFrom(ts, frag, j + 1, ks, vs)

\* a matcher that takes a trailing comma only after an entry
MatchPairsStrict(ts, frag) ==
    IF ts = <<>> THEN Matched(<<>>, <<>>)
    ELSE PairsFrom(ts, frag, 1, <<>>, <<>>)

MatchPairs(ts, frag) ==
    IF ts = <<>> \/ ts = <<Comma>> THEN Matched(<<>>, <<>>)
    ELSE PairsFrom(ts, frag, 1, <<>>, <<>>)

\* $($elem:tt),* $(,)?
RECURSIVE ElemsFrom(_, _, _)
ElemsFrom(ts, i, vals) ==
    LET vs == Append(vals, ts[i])
        j == i + 1
    IN  IF j > Len(ts) THEN Matched(<<>>, vs)
        ELSE IF ts[j] # Comma THEN NoMatch
        ELSE IF j = Len(ts) THEN Matched(<<>>, vs)
        ELSE ElemsFrom(ts, j + 1, vs)

MatchElems(ts) ==
    IF ts = <<>> THEN Matched(<<>>, <<>>)
    ELSE IF ts[1] = Comma THEN Ambiguous   \* $elem:tt and $(,)? both accept the comma
    ELSE ElemsFrom(ts, 1, <<>>)

(***************************************************************************)
(* Names in scope at the call site, and what serde_json::to_value makes of *)
(* their values.  my_struct is the record of main's test 5; bad_key is a   *)
(* map whose keys do not serialize to strings; bad_ser is a value whose    *)
(* Serialize implementation reports an error.                              *)
(***************************************************************************)
Scope == {"a", "my_struct", "bad_key", "bad_ser"}

\* ::serde_json::Map::new()
MapNew == <<>>

\* map.insert that keeps the first value written under a key
MapInsertKeepFirst(map, k, v) ==
    IF \E i \in 1..Len(map) : map[i].key = k THEN map
    ELSE IF preserve_order
    THEN Append(map, [key |-> k, value |-> v])
    ELSE SelectSeq(map, LAMBDA x : StrLess(x.key, k)) \o <<[key |-> k, value |-> v]>>
         \o SelectSeq(map, LAMBDA x : StrLess(k, x.key))

\* map.insert that always puts a new key last, whatever the build
MapInsertAppend(map, k, v) ==
    IF \E i \in 1..Len(map) : map[i].key = k
    THEN [i \in 1..Len(map) |-> IF map[i].key = k THEN [key |-> k, value |-> v] ELSE map[i]]
    ELSE Append(map, [key |-> k, value |-> v])

\* map.insert(k, v): an existing key keeps its place and takes the new value;
\* a new key goes to its sorted place (BTreeMap, the default) or to the end
\* (IndexMap, with preserve_order).  A Map is the sequence of its entries in
\* iteration order.
MapInsert(map, k, v) ==
    LET e == [key |-> k, value |-> v] IN
    IF \E i \in 1..Len(map) : map[i].key = k
    THEN [i \in 1..Len(map) |-> IF map[i].key = k THEN e ELSE map[i]]
    ELSE IF preserve_order
    THEN Append(map, e)
    ELSE SelectSeq(map, LAMBDA x : StrLess(x.key, k)) \o <<e>>
         \o SelectSeq(map, LAMBDA x : StrLess(k, x.key))

\* a push that puts the element first
VecPushFront(vec, v) == <<v>> \o vec

\* ::std::vec::Vec::new() and vec.push(v)
VecNew == <<>>
VecPush(vec, v) == Append(vec, v)

\* #[derive(serde::Serialize)] struct MyStruct { id: u32, name: String }
\* with id: 7, name: "bob"
SerializeMyStruct ==
    Ok(JObj(MapInsert(MapInsert(MapNew, "id", JNum(7)), "name", JStr("bob"))))

RECURSIVE to_value(_)
to_value(expr) ==
    CASE expr.k \in {"str", "char"} -> Ok(JStr(StrValue[expr.t]))
      [] expr.k = "num" -> Ok(JNum(NumValue[expr.t]))
      [] expr.k = "group" -> to_value(expr.ts[1])      \* block expression { e }
      [] expr.k = "ident" /\ expr.t = "a" -> Ok(JBool(TRUE))
      [] expr.k = "ident" /\ expr.t = "my_struct" -> SerializeMyStruct
      [] expr.k = "ident" /\ expr.t = "bad_key" -> Err("key must be a string")
      [] expr.k = "ident" /\ expr.t = "bad_ser" -> Err("custom")

(***************************************************************************)
(* Expansion.  A node is one application of a rule of json_safe!.          *)
(***************************************************************************)
Node(tag, keys, kids, expr) == [tag |-> tag, keys |-> keys, kids |-> kids, expr |-> expr]
CompileError == Node("CompileError", <<>>, <<>>, Comma)
Compiles(node) == node.tag # "CompileError"

\* a single token that parses as an expression
IsExprToken(tok) ==
    \/ tok.k \in {"str", "char", "num"}
    \/ tok.k = "ident" /\ tok.t \in Scope

\* ($other:expr) applied to one token tree
OtherRule(tt) ==
    IF IsExprToken(tt) THEN Node("Other", <<>>, <<>>, tt)
    ELSE IF tt.k = "group" /\ tt.t = "{" /\ Len(tt.ts) = 1 /\ IsExprToken(tt.ts[1])
    THEN Node("Other", <<>>, <<>>, tt)
    ELSE CompileError

\* (null)
NullRule == Node("Null", <<>>, <<>>, Ident("null"))

\* String::from($key) type-checks for string and char literals only
KeysTypeCheck(tag, keys) ==
    tag = "ObjectLiteral" => \A i \in 1..Len(keys) : keys[i].k \in {"str", "char"}

Container(tag, keys, kids) ==
    IF KeysTypeCheck(tag, keys) /\ \A i \in 1..Len(kids) : Compiles(kids[i])
    THEN Node(tag, keys, kids, Comma)
    ELSE CompileError

RECURSIVE json_safe(_)
RECURSIVE Children(_)

\* json_safe!($value) / json_safe!($elem), for each of them
Children(vals) ==
    IF vals = <<>> THEN <<>>
    ELSE <<json_safe(vals[1])>> \o Children(Tail(vals))

\* json_safe!(tt): the first rule whose matcher accepts tt
json_safe(tt) ==
    LET brace == tt.k = "group" /\ tt.t = "{"
        bracket == tt.k = "group" /\ tt.t = "["
        byIdent == MatchPairs(tt.ts, "ident")
        byLiteral == MatchPairs(tt.ts, "literal")
        elems == MatchElems(tt.ts)
    IN  IF brace /\ byIdent.m = "yes"
        THEN Container("ObjectIdent", byIdent.keys, Children(byIdent.vals))
        ELSE IF brace /\ byLiteral.m = "yes"
        THEN Container("ObjectLiteral", byLiteral.keys, Children(byLiteral.vals))
        ELSE IF bracket /\ elems.m = "ambiguous"
        THEN CompileError
        ELSE IF bracket /\ elems.m = "yes"
        THEN Container("Array", <<>>, Children(elems.vals))
        ELSE IF tt = Ident("null")
        THEN NullRule
        ELSE OtherRule(tt)

(***************************************************************************)
(* Evaluation of the expansion                                             *)
(***************************************************************************)
\* ::std::stringify!($key)
Stringify(tok) == tok.t

\* the literal's source text, quotes included, as stringify! would give
StringFromSource(tok) == tok.t

\* ::std::string::String::from($key)
StringFrom(tok) == StrValue[tok.t]

KeyString(tag, tok) ==
    IF tag = "ObjectIdent" THEN Stringify(tok) ELSE StringFrom(tok)

Ret(res, cs) == [res |-> res, calls |-> cs]

RECURSIVE Eval(_, _)
RECURSIVE ObjectLoop(_, _, _, _, _)
RECURSIVE ArrayLoop(_, _, _, _, _)

RECURSIVE ObjectLoopNoShortCircuit(_, _, _, _, _)
RECURSIVE ObjectLoopRejectDup(_, _, _, _, _)
RECURSIVE ArrayLoopLastError(_, _, _, _, _)

\* an object loop that builds every pair before it reports the first error
ObjectLoopNoShortCircuit(node, path, i, map, cs) ==
    IF i > Len(node.kids)
    THEN Ret(Ok(JObj(map)), cs)
    ELSE LET key == KeyString(node.tag, node.keys[i])
             r == Eval(node.kids[i], Append(path, i))
             rest == ObjectLoopNoShortCircuit(node, path, i + 1,
                         IF IsErr(r.res) THEN map ELSE MapInsert(map, key, r.res.val),
                         cs \o r.calls)
         IN  IF IsErr(r.res) THEN Ret(r.res, rest.calls) ELSE rest

\* an object loop that refuses a key it has already inserted
ObjectLoopRejectDup(node, path, i, map, cs) ==
    IF i > Len(node.kids)
    THEN Ret(Ok(JObj(map)), cs)
    ELSE LET key == KeyString(node.tag, node.keys[i])
             r == Eval(node.kids[i], Append(path, i))
         IN  IF IsErr(r.res)
             THEN Ret(r.res, cs \o r.calls)
             ELSE IF \E j \in 1..Len(map) : map[j].key = key
             THEN Ret(Err("duplicate key"), cs \o r.calls)
             ELSE ObjectLoopRejectDup(node, path, i + 1, MapInsert(map, key, r.res.val),
                                      cs \o r.calls)

\* the $( map.insert(key, json_safe!($value)?); )* of the object rules
ObjectLoop(node, path, i, map, cs) ==
    IF i > Len(node.kids)
    THEN Ret(Ok(JObj(map)), cs)
    ELSE LET key == KeyString(node.tag, node.keys[i])
             r == Eval(node.kids[i], Append(path, i))
         IN  IF IsErr(r.res)
             THEN Ret(r.res, cs \o r.calls)
             ELSE ObjectLoop(node, path, i + 1, MapInsert(map, key, r.res.val),
                             cs \o r.calls)

\* an array loop that goes on after an error and reports the last one
ArrayLoopLastError(node, path, i, vec, cs) ==
    IF i > Len(node.kids)
    THEN Ret(Ok(JArr(vec)), cs)
    ELSE LET r == Eval(node.kids[i], Append(path, i))
             rest == ArrayLoopLastError(node, path, i + 1,
                         IF IsErr(r.res) THEN vec ELSE VecPush(vec, r.res.val),
                         cs \o r.calls)
         IN  IF IsErr(r.res) /\ IsOk(rest.res) THEN Ret(r.res, rest.calls) ELSE rest

\* the $( vec.push(json_safe!($elem)?); )* of the array rule
ArrayLoop(node, path, i, vec, cs) ==
    IF i > Len(node.kids)
    THEN Ret(Ok(JArr(vec)), cs)
    ELSE LET r == Eval(node.kids[i], Append(path, i))
         IN  IF IsErr(r.res)
             THEN Ret(r.res, cs \o r.calls)
             ELSE ArrayLoop(node, path, i + 1, VecPush(vec, r.res.val), cs \o r.calls)

\* null handed to the converter as the unit value
NullBodyViaToValue(path) == Ret(Ok(JNull), <<path>>)

\* the closure of the null rule
NullBody(path) == Ret(Ok(JNull), <<>>)

\* a fallback that replaces the converter's error by one of its own
OtherBodyWrapped(expr, path) ==
    Ret(IF IsErr(to_value(expr)) THEN Err("conversion failed") ELSE to_value(expr), <<path>>)

\* ::serde_json::to_value($other)
OtherBody(expr, path) == Ret(to_value(expr), <<path>>)

Eval(node, path) ==
    CASE node.tag \in {"ObjectIdent", "ObjectLiteral"} ->
            ObjectLoop(node, path, 1, MapNew, <<>>)
      [] node.tag = "Array" -> ArrayLoop(node, path, 1, VecNew, <<>>)
      [] node.tag = "Null" -> NullBody(path)
      [] node.tag = "Other" -> OtherBody(node.expr, path)

(***************************************************************************)
(* Inputs                                                                  *)
(***************************************************************************)
\* leaves of a well-formed literal: null and three variables
LeafTokens == {Ident("null"), Ident("my_struct"), Ident("bad_key"), Ident("bad_ser")}
KeyTexts == {"a", "b"}

\* tokens of a free-form input
BraceTokens == {Ident("a"), StrLit("a"), Colon, Comma}
BracketTokens == BraceTokens \cup {Literal("num", "1")}

\* k1 : v1 , k2 : v2 ...
RECURSIVE Entries(_, _)
Entries(ks, vs) ==
    IF vs = <<>> THEN <<>>
    ELSE IF Len(vs) = 1 THEN <<ks[1], Colon, vs[1]>>
    ELSE <<ks[1], Colon, vs[1], Comma>> \o Entries(Tail(ks), Tail(vs))

\* v1 , v2 ...
RECURSIVE Separated(_)
Separated(vs) ==
    IF vs = <<>> THEN <<>>
    ELSE IF Len(vs) = 1 THEN vs
    ELSE <<vs[1], Comma>> \o Separated(Tail(vs))

\* A well-formed literal of n nodes is drawn as a tree over 1..n numbered in
\* source order (parent[i] is the container of node i), a leaf token for every
\* childless node (or, when the literal is a single node, an empty container),
\* a container kind for every other node and a key text for every node (used
\* when its parent is an object; the keys of one object are all identifiers
\* or all strings).
RECURSIVE OnPathToRoot(_, _, _)
OnPathToRoot(parent, a, j) ==
    a = j \/ (j > 1 /\ OnPathToRoot(parent, a, parent[j]))

InSourceOrder(parent, n) ==
    /\ \A i \in 2..n : parent[i] < i
    /\ \A i \in 3..n : OnPathToRoot(parent, parent[i], i - 1)

ChildrenOf(parent, n, i) == {j \in 2..n : parent[j] = i}

RECURSIVE Ascending(_)
Ascending(S) ==
    IF S = {} THEN <<>>
    ELSE LET m == CHOOSE x \in S : \A y \in S : x <= y
         IN  <<m>> \o Ascending(S \ {m})

Childless(n) ==
    IF n = 1 THEN LeafTokens \cup {Group("{", <<>>), Group("[", <<>>)} ELSE LeafTokens
ContainerKinds == {"array", "ident", "str"}

RECURSIVE TokenOf(_, _, _, _, _, _)
RECURSIVE TokensOf(_, _, _, _, _, _)
TokensOf(parent, n, leaf, kind, key, cs) ==
    IF cs = <<>> THEN <<>>
    ELSE <<TokenOf(parent, n, leaf, kind, key, cs[1])>>
         \o TokensOf(parent, n, leaf, kind, key, Tail(cs))

RECURSIVE KeysOf(_, _, _)
KeysOf(k, key, cs) ==
    IF cs = <<>> THEN <<>>
    ELSE <<IF k = "ident" THEN Ident(key[cs[1]]) ELSE StrLit(key[cs[1]])>>
         \o KeysOf(k, key, Tail(cs))

TokenOf(parent, n, leaf, kind, key, i) ==
    LET cs == Ascending(ChildrenOf(parent, n, i))
        vs == TokensOf(parent, n, leaf, kind, key, cs)
    IN  IF cs = <<>> THEN leaf[i]
        ELSE IF kind[i] = "array" THEN Group("[", Separated(vs))
        ELSE Group("{", Entries(KeysOf(kind[i], key, cs), vs))

WellFormedInput(tt) ==
    \E n \in 1..MaxNodes :
      \E parent \in [2..n -> 1..(n - 1)] :
        /\ InSourceOrder(parent, n)
        /\ LET inner == {i \in 1..n : ChildrenOf(parent, n, i) # {}}
           IN  \E leaf \in [(1..n) \ inner -> Childless(n)] :
                 \E kind \in [inner -> ContainerKinds] :
                   \E key \in [2..n -> KeyTexts] :
                     tt = TokenOf(parent, n, leaf, kind, key, 1)

\* A free-form input is any token sequence between braces or between
\* brackets, a single-token expression, or an object with a key that is a
\* number or a char.
FreeFormInput(tt) ==
    \/ \E n \in 0..MaxTokens : \E ts \in [1..n -> BraceTokens] : tt = Group("{", ts)
    \/ \E n \in 0..MaxElemTokens : \E ts \in [1..n -> BracketTokens] : tt = Group("[", ts)
    \/ tt \in {Ident("a"), StrLit("a"), Literal("num", "1"),
               Group("{", <<Literal("num", "1"), Colon, Ident("a")>>),
               Group("{", <<CharLit("a"), Colon, Ident("a")>>),
               Group("{", <<StrLit("a"), Colon, StrLit("a"), Comma,
                            CharLit("a"), Colon, CharLit("a")>>)}

NotExpanded == Node("None", <<>>, <<>>, Comma)

(***************************************************************************)
(* The invocation                                                          *)
(***************************************************************************)
Init ==
    /\ WellFormedInput(src) \/ FreeFormInput(src)
    /\ pc = "source"
    /\ expansion = NotExpanded
    /\ result = NoResult
    /\ calls = <<>>
    /\ preserve_order \in BOOLEAN

\* the invocation expands and type-checks
Compile ==
    /\ pc = "source"
    /\ Compiles(json_safe(src))
    /\ expansion' = json_safe(src)
    /\ pc' = "expanded"
    /\ UNCHANGED <<src, result, calls, preserve_order>>

\* no rule matches, a matcher is ambiguous, or the expansion does not type-check
Reject ==
    /\ pc = "source"
    /\ ~Compiles(json_safe(src))
    /\ expansion' = CompileError
    /\ pc' = "rejected"
    /\ UNCHANGED <<src, result, calls, preserve_order>>

\* the expansion is evaluated
Run ==
    /\ pc = "expanded"
    /\ LET r == Eval(expansion, <<>>)
       IN  /\ result' = r.res
           /\ calls' = r.calls
    /\ pc' = "done"
    /\ UNCHANGED <<src, expansion, preserve_order>>

Next == Compile \/ Reject \/ Run

Spec == Init /\ [][Next]_vars

TypeOK ==
    /\ pc \in {"source", "expanded", "rejected", "done"}
    /\ preserve_order \in BOOLEAN
    /\ pc = "done" <=> result # NoResult

(***************************************************************************)
(* Vocabulary of the properties                                            *)
(***************************************************************************)
Done == pc = "done"
IsObject(node) == node.tag \in {"ObjectIdent", "ObjectLiteral"}
IsArray(node) == node.tag = "Array"

\* the Other leaves below a node, in source order (depth-first, left to right)
RECURSIVE OtherLeaves(_, _)
RECURSIVE OtherLeavesOfKids(_, _, _)
OtherLeavesOfKids(kids, path, i) ==
    IF i > Len(kids) THEN <<>>
    ELSE OtherLeaves(kids[i], Append(path, i)) \o OtherLeavesOfKids(kids, path, i + 1)

OtherLeaves(node, path) ==
    IF node.tag = "Other" THEN <<[path |-> path, expr |-> node.expr]>>
    ELSE OtherLeavesOfKids(node.kids, path, 1)

\* the paths of the Null nodes below a node
RECURSIVE NullPaths(_, _)
NullPaths(node, path) ==
    IF node.tag = "Null" THEN {path}
    ELSE UNION {NullPaths(node.kids[i], Append(path, i)) : i \in 1..Len(node.kids)}

Leaves == OtherLeaves(expansion, <<>>)
Fails(leaf) == IsErr(to_value(leaf.expr))
Failing == SelectSeq(Leaves, Fails)

\* the index of the first failing leaf, or the number of leaves when none fails
FirstFailure ==
    IF Failing = <<>> THEN Len(Leaves)
    ELSE CHOOSE i \in 1..Len(Leaves) :
            Fails(Leaves[i]) /\ \A j \in 1..(i - 1) : ~Fails(Leaves[j])

\* the string a key denotes: an identifier's name, a string literal's content
KeyName(tok) ==
    IF tok.k = "ident" THEN tok.t
    ELSE IF tok.k = "char" THEN CHOOSE c \in DOMAIN CharQuote : CharQuote[c] = tok.t
    ELSE CHOOSE c \in DOMAIN Quote : Quote[c] = tok.t

KeyNames(node) == [i \in 1..Len(node.keys) |-> KeyName(node.keys[i])]

\* the last position at which the key of pair i occurs
LastPos(node, i) ==
    CHOOSE j \in i..Len(node.keys) :
        /\ KeyName(node.keys[j]) = KeyName(node.keys[i])
        /\ \A l \in (j + 1)..Len(node.keys) : KeyName(node.keys[l]) # KeyName(node.keys[i])

\* what the children of a node build on their own
Built(node, i) == Eval(node.kids[i], <<i>>).res
ChildrenBuild(node) == \A i \in 1..Len(node.kids) : IsOk(Built(node, i))

KeysOfMap(map) == [i \in 1..Len(map) |-> map[i].key]
Missing == [t |-> "Missing"]

\* the value a map holds under a key
Lookup(map, k) ==
    IF \E i \in 1..Len(map) : map[i].key = k
    THEN map[CHOOSE i \in 1..Len(map) : map[i].key = k].value
    ELSE Missing

\* the part of a built value that the node at a path contributed; Shadowed
\* when a later pair with the same key replaced it
Shadowed == [t |-> "Shadowed"]
RECURSIVE ValueAt(_, _, _)
ValueAt(node, json, path) ==
    IF path = <<>> THEN json
    ELSE LET i == path[1] IN
         IF IsArray(node)
         THEN IF json.t = "Array" /\ i <= Len(json.items)
              THEN ValueAt(node.kids[i], json.items[i], Tail(path))
              ELSE Missing
         ELSE IF LastPos(node, i) # i THEN Shadowed
         ELSE IF json.t = "Object" /\ Lookup(json.map, KeyName(node.keys[i])) # Missing
              THEN ValueAt(node.kids[i], Lookup(json.map, KeyName(node.keys[i])), Tail(path))
              ELSE Missing

Range(seq) == {seq[i] : i \in 1..Len(seq)}

(***************************************************************************)
(* Properties                                                              *)
(***************************************************************************)

\* C1 (fail-fast propagation): when at least one Other leaf of the literal
\* fails conversion, the build returns a failure, and it carries exactly the
\* error of the first failing leaf in source order.
C1_FailFast ==
    (Done /\ Failing # <<>>) =>
        /\ IsErr(result)
        /\ result = to_value(Failing[1].expr)

\* two leaves fail with different errors, the first of them nested
C1_Witness ==
    /\ Done
    /\ Len(Failing) >= 2
    /\ to_value(Failing[1].expr) # to_value(Failing[2].expr)
    /\ Len(Failing[1].path) >= 2
    /\ IsErr(result)

\* C2 (key set): an Object literal whose children all build yields an Object
\* whose keys are exactly the literal's keys as strings, each once, and each
\* key maps to what the child at the key's last position builds.
C2_KeySet ==
    (Done /\ IsObject(expansion) /\ ChildrenBuild(expansion)) =>
        /\ IsOk(result)
        /\ result.val.t = "Object"
        /\ LET m == result.val.map
           IN  /\ Range(KeysOfMap(m)) = Range(KeyNames(expansion))
               /\ \A i, j \in 1..Len(m) : m[i].key = m[j].key => i = j
               /\ \A i \in 1..Len(expansion.keys) :
                    Lookup(m, KeyName(expansion.keys[i]))
                        = Built(expansion, LastPos(expansion, i)).val

\* an object built from two pairs with the same key and different values
C2_Witness ==
    /\ Done
    /\ IsObject(expansion)
    /\ IsOk(result)
    /\ \E i, j \in 1..Len(expansion.keys) :
          /\ i < j
          /\ KeyName(expansion.keys[i]) = KeyName(expansion.keys[j])
          /\ Built(expansion, i) # Built(expansion, j)

\* C3 (order): an Array literal whose elements all build yields an Array of
\* the same length whose i-th element is what the i-th element builds.
C3_Order ==
    (Done /\ IsArray(expansion) /\ ChildrenBuild(expansion)) =>
        /\ IsOk(result)
        /\ result.val.t = "Array"
        /\ Len(result.val.items) = Len(expansion.kids)
        /\ \A i \in 1..Len(expansion.kids) :
              result.val.items[i] = Built(expansion, i).val

\* an array built from three elements, the first two of them different
C3_Witness ==
    /\ Done
    /\ IsArray(expansion)
    /\ IsOk(result)
    /\ Len(expansion.kids) >= 3
    /\ Built(expansion, 1) # Built(expansion, 2)

\* C4 (null identity): null builds the JSON Null at top level, as the value
\* of a pair and as an element; the converter is never called for it and no
\* failure comes from it.
C4_NullIdentity ==
    Done =>
        /\ \A p \in NullPaths(expansion, <<>>) : p \notin Range(calls)
        /\ expansion.tag = "Null" => result = Ok(JNull)
        /\ IsOk(result) =>
              \A p \in NullPaths(expansion, <<>>) :
                  ValueAt(expansion, result.val, p) \in {JNull, Shadowed}
        /\ IsErr(result) => calls # <<>>

\* an array holding a null and an object that holds a null
C4_Witness ==
    /\ Done
    /\ IsOk(result)
    /\ IsArray(expansion)
    /\ \E i, j \in 1..Len(expansion.kids) :
          /\ expansion.kids[i].tag = "Null"
          /\ IsObject(expansion.kids[j])
          /\ \E l \in 1..Len(expansion.kids[j].kids) : expansion.kids[j].kids[l].tag = "Null"

\* C5 (errors come from the converter only): when every Other leaf converts,
\* and so too when there is no Other leaf, the build succeeds.
C5_OnlyConverterFails ==
    Done => (Failing = <<>> => IsOk(result))

\* an object holding an array holding a null: no Other leaf anywhere
C5_Witness ==
    /\ Done
    /\ Leaves = <<>>
    /\ IsObject(expansion)
    /\ \E i \in 1..Len(expansion.kids) :
          IsArray(expansion.kids[i]) /\ expansion.kids[i].kids # <<>>
    /\ IsOk(result)

\* C6 (fallback pass-through): an Other node builds exactly what to_value
\* makes of its value, at top level and as a leaf, success or failure; the
\* record of fields id and name gives an Object with exactly those keys.
C6_PassThrough ==
    Done =>
        /\ expansion.tag = "Other" => result = to_value(expansion.expr)
        /\ \A i \in 1..Len(Leaves) :
              Leaves[i].path \in Range(calls) =>
                  LET r == to_value(Leaves[i].expr)
                  IN  IF IsErr(r) THEN result = r
                      ELSE IsOk(result) =>
                              ValueAt(expansion, result.val, Leaves[i].path)
                                  \in {r.val, Shadowed}
        /\ \A i \in 1..Len(Leaves) :
              Leaves[i].expr = Ident("my_struct") =>
                  LET r == to_value(Leaves[i].expr)
                  IN  /\ IsOk(r)
                      /\ r.val.t = "Object"
                      /\ Range(KeysOfMap(r.val.map)) = {"id", "name"}
                      /\ Len(r.val.map) = 2
                      /\ Lookup(r.val.map, "id") = JNum(7)
                      /\ Lookup(r.val.map, "name") = JStr("bob")

\* the record handed to the macro as the whole input
C6_Witness ==
    /\ Done
    /\ expansion.tag = "Other"
    /\ expansion.expr = Ident("my_struct")
    /\ IsOk(result)
    /\ calls = << <<>> >>

\* the same pairs written with quoted keys
LiteralForm(tt) ==
    Group("{", [p \in 1..Len(tt.ts) |->
                    IF p % 4 = 1 /\ tt.ts[p].k = "ident"
                    THEN StrLit(tt.ts[p].t) ELSE tt.ts[p]])

\* C7 (key forms are equivalent): an identifier-keyed object and the
\* string-keyed object with the same key texts and the same children give the
\* same result, value or error.
C7_KeyForms ==
    (Done /\ expansion.tag = "ObjectIdent") =>
        LET twin == json_safe(LiteralForm(src))
        IN  /\ Compiles(twin)
            /\ expansion.keys # <<>> => twin.tag = "ObjectLiteral"
            /\ Eval(twin, <<>>).res = result

\* an object of two different identifier keys that builds
C7_Witness ==
    /\ Done
    /\ expansion.tag = "ObjectIdent"
    /\ IsOk(result)
    /\ \E i, j \in 1..Len(expansion.keys) : expansion.keys[i] # expansion.keys[j]

\* C8 (conversion order and short circuit): the converter is called on the
\* Other leaves in source order, once each, up to and including the first
\* leaf that fails, and on no leaf after it.
C8_ConversionOrder ==
    Done => calls = [i \in 1..FirstFailure |-> Leaves[i].path]

\* a nested leaf fails and a leaf of an enclosing container follows it
C8_Witness ==
    /\ Done
    /\ IsErr(result)
    /\ FirstFailure < Len(Leaves)
    /\ Len(Leaves[FirstFailure].path) > Len(Leaves[FirstFailure + 1].path)

\* the source is a pair of braces and the macro built an Object from it
IsBraces(tt) == tt.k = "group" /\ tt.t = "{"
AcceptedAsObject == pc \in {"expanded", "done"} /\ IsObject(expansion)

\* the tokens before an optional trailing comma
Body(ts) ==
    IF ts # <<>> /\ ts[Len(ts)] = Comma THEN SubSeq(ts, 1, Len(ts) - 1) ELSE ts

\* Key : Value ( , Key : Value )* with keys of the given kinds
EntriesShape(body, kinds) ==
    /\ Len(body) % 4 = 3
    /\ \A p \in 1..Len(body) :
          CASE p % 4 = 1 -> body[p].k \in kinds
            [] p % 4 = 2 -> body[p] = Colon
            [] p % 4 = 3 -> TRUE
            [] p % 4 = 0 -> body[p] = Comma

ValuesOf(body) == {body[p] : p \in {q \in 1..Len(body) : q % 4 = 3}}

\* Value of the grammar: Object | Array | null | OtherExpression
GrammarValue(tok) == tok.k \in {"ident", "str", "char", "num", "group"}

\* Object of the grammar: { ( Key : Value ( , Key : Value )* ,? )? } with
\* Key ::= Identifier | QuotedString
GrammarObject(ts) ==
    \/ ts = <<>>
    \/ /\ EntriesShape(Body(ts), {"ident", "str"})
       /\ \A v \in ValuesOf(Body(ts)) : GrammarValue(v)

\* a token tree the macro itself accepts
BuildsAsValue(tok) == Compiles(json_safe(tok))

\* what the object rules accept: the keys are all identifiers or all string
\* or char literals, and a comma may stand alone
UniformObject(ts) ==
    \/ Body(ts) = <<>>
    \/ /\ \E kinds \in {{"ident"}, {"str", "char"}} : EntriesShape(Body(ts), kinds)
       /\ \A v \in ValuesOf(Body(ts)) : BuildsAsValue(v)

\* C9 as stated (objects are exactly the grammar's Object production, keys
\* mixing freely, a comma only after an entry): fails on the code.
C9_GrammarObject ==
    (pc # "source" /\ IsBraces(src)) => (AcceptedAsObject <=> GrammarObject(src.ts))

\* C9 (amended): the macro builds an Object from exactly the brace groups
\* holding zero or more Key : Value entries separated by commas whose keys are
\* all identifiers or all string (or char) literals and whose values are single
\* token trees it accepts, followed by an optional comma, also when there is
\* no entry.
C9_UniformObject ==
    (pc # "source" /\ IsBraces(src)) => (AcceptedAsObject <=> UniformObject(src.ts))

\* an object mixing an identifier key and a string key is rejected
C9_Witness ==
    /\ pc = "rejected"
    /\ IsBraces(src)
    /\ GrammarObject(src.ts)
    /\ \E p, q \in 1..Len(src.ts) :
          /\ p % 4 = 1 /\ q % 4 = 1
          /\ src.ts[p].k = "ident" /\ src.ts[q].k = "str"

\* the distinct elements of a sequence in order of first occurrence
RECURSIVE FirstOccurrences(_)
FirstOccurrences(seq) ==
    IF seq = <<>> THEN <<>>
    ELSE LET front == SubSeq(seq, 1, Len(seq) - 1)
             last == seq[Len(seq)]
         IN  IF last \in Range(front) THEN FirstOccurrences(front)
             ELSE Append(FirstOccurrences(front), last)

BuiltObject == Done /\ IsOk(result) /\ IsObject(expansion)

\* C10 as stated (a built Object iterates its keys in the order of their
\* first insertion, never re-sorted): fails on the code.
C10_InsertionOrder ==
    BuiltObject =>
        KeysOfMap(result.val.map) = FirstOccurrences(KeyNames(expansion))

\* C10 (amended): a built Object iterates each distinct key once; in the order
\* of first insertion when serde_json is built with preserve_order, and in
\* ascending byte order of the keys otherwise (the default); a later duplicate
\* replaces the value and leaves the order alone.
C10_MapOrder ==
    BuiltObject =>
        LET ks == KeysOfMap(result.val.map)
        IN  IF preserve_order
            THEN ks = FirstOccurrences(KeyNames(expansion))
            ELSE /\ Range(ks) = Range(KeyNames(expansion))
                 /\ \A i, j \in 1..Len(ks) : i < j => StrLess(ks[i], ks[j])

\* a default build of an object whose keys are written in descending order
C10_Witness ==
    /\ BuiltObject
    /\ ~preserve_order
    /\ \E i, j \in 1..Len(expansion.keys) :
          i < j /\ StrLess(KeyName(expansion.keys[j]), KeyName(expansion.keys[i]))

====
